---- MODULE Spec2Model ----
(***************************************************************************)
(* Cloudflare Stream Manager: the bulk upload orchestrator (VideoUpload,   *)
(* bulk variant) and the resumable upload session (TusUploadService).      *)
(*                                                                         *)
(* Scheduling is that of one JavaScript thread: every action below is one  *)
(* event-loop task (a click handler, a timer callback, a network           *)
(* completion) together with the promise continuations it runs to          *)
(* completion.  React's functional setState updaters are applied in the    *)
(* order they are queued, so they are modelled as direct assignments.      *)
(***************************************************************************)
EXTENDS Integers, Sequences, FiniteSets, TLC

(***************************************************************************)
(* Bounds of the model                                                     *)
(***************************************************************************)
\* number of items ever created in the queue (generateId is called at most
\* this many times)
MaxItems == 4
\* number of URL items ever added to the queue
MaxUrls == 1
\* number of transient transport failures one upload session may meet
MaxFails == 7
\* requested chunk sizes tried: the values around every multiple of
\* chunkDivisor / 2 up to MaxHalfSteps * chunkDivisor / 2
MaxHalfSteps == 44
\* the videos of the account
MaxVideos == 3
\* status queries sent by the interval of one download view
MaxPolls == 3

(***************************************************************************)
(* Program constants                                                       *)
(***************************************************************************)
\* const concurrentLimit = 3
concurrentLimit == 3
\* synthetic progress of a URL item: +10 per tick, capped at 90, 100 at the end
progressStep == 10
progressCap == 90
progressDone == 100
\* const minChunkSize = 5242880; const chunkDivisor = 262144; default 52428800
minChunkSize == 5242880
chunkDivisor == 262144
defaultChunkSize == 52428800
\* /\/([a-f0-9]{32})$/
hexLength == 32
\* a schedule two entries shorter
retryDelaysShort == <<0, 3000, 5000>>

\* retryDelays: [0, 3000, 5000, 10000, 20000]
retryDelays == <<0, 3000, 5000, 10000, 20000>>

VARIABLES
    items,          \* uploadState.items: sequence of UploadItem
    globalStatus,   \* uploadState.globalStatus: "idle" | "uploading" | "completed"
    nextId,         \* number of ids generateId has handed out
    urlCount,       \* number of URL items created so far
    run,            \* the latest activation of startBulkUpload: its batches and
                    \* position, and whether it is still running
    task,           \* one uploadSingleItem activation per dispatched snapshot item
    sess,           \* one TusUploadService.uploadFile call: options, tus.Upload, promise
    inflight,       \* the requests of that session awaiting their response
    videos,         \* VideoList: the uids of the listed videos
    selectedVideos, \* VideoList: the selected uids, in insertion order
    bulkDelete,     \* VideoList: bulkDeleteActive, bulkDeleteProgress and the
                    \* position of handleBulkDeleteConfirm's loop
    bulkDownload,   \* VideoList: bulkDownloadActive, bulkDownloadProgress and the
                    \* activations of handleBulkDownload with their timers
    download        \* VideoList: downloadVideo, downloadProgress and the
                    \* activations of handleDownloadVideo with their pollers

orchVars == <<items, globalStatus, nextId, urlCount, run, task>>

sessVars == <<sess, inflight>>
\* the state of the video list component
listVars == <<videos, selectedVideos, bulkDelete, bulkDownload, download>>

(***************************************************************************)
(* Values                                                                  *)
(***************************************************************************)
NoProgress == -1      \* progress: null
NoVideoId == 0        \* videoId: undefined / null
NoError == "none"     \* error: undefined
ErrNoVideoId == "Upload completed but no video ID was returned"
ErrTus == "tus: upload failed"
ErrCopy == "copy: request failed"    \* the message of whatever handleRemoteUpload rethrows

\* percentages a TUS onProgress event carries in this model: the one of the
\* acknowledgment of the last chunk, Math.round((bytesTotal / bytesTotal) * 100)
FilePcts == {progressDone}

\* the identifier the remote assigns to the upload of item id
RemoteIdOf(id) == id

NoRun == [active |-> FALSE, batches |-> <<>>, k |-> 0]
\* pc: where the uploadSingleItem activation is suspended; vid: the identifier it
\* holds; verr: whether its getVideoDetails call failed; timer: whether its
\* progressInterval is set
NoTask == [pc |-> "none", vid |-> NoVideoId, verr |-> FALSE, timer |-> FALSE]

\* A URL typed into the text area: "https://x.test/" followed by the
\* segments of `path` joined by '/', by a '/' more when `slash`, and by '?'
\* and `query` when there is one (no '/' in it)
NoUrl == [path |-> <<>>, slash |-> FALSE, query |-> ""]

Urls ==
    {[path |-> <<"dir", "video.mp4">>, slash |-> FALSE, query |-> ""],
     [path |-> <<"dir">>, slash |-> TRUE, query |-> ""],
     [path |-> <<"dir", "video.mp4">>, slash |-> FALSE, query |-> "sig=abc"]}

\* file.name of the files dropped or chosen
FileName == "clip.mp4"

\* url.split('/').pop(): the text after the last '/'
UrlTail(url) ==
    (IF url.slash THEN "" ELSE url.path[Len(url.path)])
        \o (IF url.query = "" THEN "" ELSE "?" \o url.query)

\* the text after the last '/' with nothing put in its place when it is empty
DisplayNameNoFallback(url) == UrlTail(url)

\* name: url.split('/').pop() || 'Remote Video'
DisplayName(url) == IF UrlTail(url) = "" THEN "Remote Video" ELSE UrlTail(url)

NewItem(id, kind) ==
    [id |-> id, kind |-> kind, progress |-> NoProgress, status |-> "idle",
     error |-> NoError, videoId |-> NoVideoId, url |-> NoUrl, name |-> FileName]

(***************************************************************************)
(* Helpers on the queue                                                    *)
(***************************************************************************)
QueueIds(its) == {its[n].id : n \in DOMAIN its}

ItemOf(its, id) == its[CHOOSE n \in DOMAIN its : its[n].id = id]

\* {...i, <fields>}: the item with the fields of upd replaced
Spread(it, upd) ==
    LET F(name) == IF name \in DOMAIN upd THEN upd[name] ELSE it[name]
    IN [id |-> F("id"), kind |-> F("kind"), progress |-> F("progress"),
        status |-> F("status"), error |-> F("error"), videoId |-> F("videoId"),
        url |-> F("url"), name |-> F("name")]

\* prev.items.map(i => i.id === id ? {...i, <fields>} : i)
MapItem(its, id, upd) ==
    [n \in DOMAIN its |-> IF its[n].id = id THEN Spread(its[n], upd) ELSE its[n]]

\* an item no activation is working on, finished or not
IsAtRest(it) == it.status # "uploading"

IsIdle(it) == it.status = "idle"

\* the whole queue, unfiltered
QueuedItems(its) == its

\* uploadState.items.filter(item => item.status === 'idle')
IdleItems(its) == SelectSeq(its, IsIdle)

RECURSIVE BatchesFrom(_, _)
\* for (i = 0; i < n; i += limit) batches.push(items.slice(i, i + limit))
BatchesFrom(seq, limit) ==
    IF Len(seq) = 0 THEN <<>>
    ELSE IF Len(seq) <= limit THEN <<seq>>
    ELSE <<SubSeq(seq, 1, limit)>> \o BatchesFrom(SubSeq(seq, limit + 1, Len(seq)), limit)

\* the split with slices one item longer than the limit
BatchesWide(seq) == BatchesFrom(seq, concurrentLimit + 1)

Batches(seq) == BatchesFrom(seq, concurrentLimit)

SeqRange(seq) == {seq[n] : n \in DOMAIN seq}

BatchIds(batch) == {batch[n].id : n \in DOMAIN batch}


(***************************************************************************)
(* TusUploadService.uploadFile seen from its caller: what becomes of the   *)
(* returned promise when the transport reports a terminal error            *)
(***************************************************************************)
\* onError: (error) => { console.error(...); options.onError?.(error); reject(error); }
\* reject(error) is reached only when the caller's callback returns normally
PromiseAfterOnError(callbackThrows) ==
    IF callbackThrows THEN "pending" ELSE "rejected"

\* the bulk handleLocalUpload passes onError: (error) => { console.error(...); throw error; }
BulkOnErrorThrows == TRUE

(***************************************************************************)
(* Initial state: useState({items: [], globalStatus: 'idle'})              *)
(***************************************************************************)
OrchInit ==
    /\ items = <<>>
    /\ globalStatus = "idle"
    /\ nextId = 0
    /\ urlCount = 0
    /\ run = NoRun
    /\ task = [id \in 1..MaxItems |-> NoTask]

(***************************************************************************)
(* Queue mutation                                                          *)
(***************************************************************************)
\* generateId() is taken to return a fresh id at every call: ids are numbered
\* in the order they are handed out
NewItems(first, n, kind) == [m \in 1..n |-> NewItem(first + m, kind)]

\* urls.map(url => ({id: generateId(), url, ..., name: url.split('/').pop() || 'Remote Video'}))
NewUrlItems(first, urls) ==
    [m \in DOMAIN urls |->
        [NewItem(first + m, "url") EXCEPT !.url = urls[m], !.name = DisplayName(urls[m])]]

\* the non-empty lines of the text area
UrlLists == UNION {[1..n -> Urls] : n \in 1..MaxUrls}

\* handleDrop / handleFileInput -> handleFileSelect(files), files.length > 0
HandleFileSelect(n) ==
    /\ n >= 1
    /\ nextId + n <= MaxItems
    /\ items' = items \o NewItems(nextId, n, "file")
    /\ nextId' = nextId + n
    /\ UNCHANGED <<globalStatus, urlCount, run, task, sessVars, listVars>>

\* addUrlsToQueue, behind the "Add to Queue" button
\* (disabled when globalStatus === 'uploading'); returns when no url is given
AddUrlsToQueue(urls) ==
    /\ globalStatus # "uploading"
    /\ Len(urls) >= 1
    /\ nextId + Len(urls) <= MaxItems
    /\ urlCount + Len(urls) <= MaxUrls
    /\ items' = items \o NewUrlItems(nextId, urls)
    /\ nextId' = nextId + Len(urls)
    /\ urlCount' = urlCount + Len(urls)
    /\ UNCHANGED <<globalStatus, run, task, sessVars, listVars>>

\* removeItem, behind the X button of an item (disabled when item.status === 'uploading')
RemoveItem(id) ==
    /\ id \in QueueIds(items)
    /\ ItemOf(items, id).status # "uploading"
    /\ items' = SelectSeq(items, LAMBDA it : it.id # id)
    /\ UNCHANGED <<globalStatus, nextId, urlCount, run, task, sessVars, listVars>>

\* clearAll, behind the "Clear All" button (rendered when the queue is not
\* empty, disabled when globalStatus === 'uploading')
ClearAll ==
    /\ Len(items) > 0
    /\ globalStatus # "uploading"
    /\ items' = <<>>
    /\ globalStatus' = "idle"
    /\ UNCHANGED <<nextId, urlCount, run, task, sessVars, listVars>>

(***************************************************************************)
(* startBulkUpload and uploadSingleItem                                    *)
(***************************************************************************)
\* the snapshot objects of the closure: only id and source are read later
Snapshot(its) == [n \in DOMAIN its |-> [id |-> its[n].id, kind |-> its[n].kind]]

SnapshotKind(batch, id) == batch[CHOOSE n \in DOMAIN batch : batch[n].id = id].kind

\* uploadSingleItem up to its first suspension, for every item of the batch:
\* status 'uploading' and error undefined ...
DispatchItems(its, batch) ==
    [n \in DOMAIN its |->
        IF its[n].id \in BatchIds(batch)
        THEN [its[n] EXCEPT !.status = "uploading", !.error = NoError]
        ELSE its[n]]

\* ... then handleLocalUpload starts the session (file) or handleRemoteUpload
\* starts the interval and the copy-from-url call (url)
DispatchTasks(tsk, batch) ==
    [id \in DOMAIN tsk |->
        IF id \in BatchIds(batch)
        THEN [NoTask EXCEPT !.pc = IF SnapshotKind(batch, id) = "file" THEN "tus" ELSE "copy",
                            !.timer = SnapshotKind(batch, id) = "url"]
        ELSE tsk[id]]

\* a wait that ends with the first settled activation of the batch
BatchSettledAny(tsk, batch) == \E id \in BatchIds(batch) : tsk[id].pc = "done"

\* await Promise.all(batch.map(item => uploadSingleItem(item)))
BatchSettled(tsk, batch) == \A id \in BatchIds(batch) : tsk[id].pc = "done"

\* a start command that can be issued whatever globalStatus is
StartBulkUploadAnyTime ==
    /\ Len(IdleItems(items)) > 0
    /\ LET batches == Batches(Snapshot(IdleItems(items))) IN
        /\ globalStatus' = "uploading"
        /\ run' = [active |-> TRUE, batches |-> batches, k |-> 1]
        /\ items' = DispatchItems(items, batches[1])
        /\ task' = DispatchTasks(task, batches[1])
    /\ UNCHANGED <<nextId, urlCount, sessVars, listVars>>

\* the "Start Upload" button is rendered when idleItems.length > 0 and
\* globalStatus !== 'uploading'
StartBulkUpload ==
    /\ Len(IdleItems(items)) > 0
    /\ globalStatus # "uploading"
    /\ LET batches == Batches(Snapshot(IdleItems(items))) IN
        /\ globalStatus' = "uploading"
        /\ run' = [active |-> TRUE, batches |-> batches, k |-> 1]
        /\ items' = DispatchItems(items, batches[1])
        /\ task' = DispatchTasks(task, batches[1])
    /\ UNCHANGED <<nextId, urlCount, sessVars, listVars>>

\* the settled uploadSingleItem activations of a batch are gone once its
\* Promise.all has resolved
Forget(tsk, batch) ==
    [id \in DOMAIN tsk |-> IF id \in BatchIds(batch) THEN NoTask ELSE tsk[id]]

\* the continuation of startBulkUpload after an uploadSingleItem promise has
\* settled: next batch once Promise.all resolves, 'completed' after the last
Settle(id, its, tsk) ==
    IF ~(run.active /\ id \in BatchIds(run.batches[run.k])
            /\ BatchSettled(tsk, run.batches[run.k]))
    THEN /\ items' = its
         /\ task' = tsk
         /\ UNCHANGED <<globalStatus, run>>
    ELSE IF run.k < Len(run.batches)
    THEN /\ items' = DispatchItems(its, run.batches[run.k + 1])
         /\ task' = DispatchTasks(Forget(tsk, run.batches[run.k]), run.batches[run.k + 1])
         /\ run' = [run EXCEPT !.k = run.k + 1]
         /\ UNCHANGED globalStatus
    ELSE /\ items' = its
         /\ task' = Forget(tsk, run.batches[run.k])
         /\ globalStatus' = "completed"
         /\ run' = [run EXCEPT !.active = FALSE]

\* catch (error) of uploadSingleItem: status 'error' with the message
Failed(id, msg) ==
    Settle(id,
           MapItem(items, id, [status |-> "error", error |-> msg]),
           [task EXCEPT ![id].pc = "done"])

(***************************************************************************)
(* handleLocalUpload: the session's callbacks                              *)
(***************************************************************************)
\* onProgress: (progress) => items.map(i => i.id === item.id ? {...i, progress} : i)
TusProgress(id, pct) ==
    /\ task[id].pc = "tus"
    /\ id \in QueueIds(items) => pct > ItemOf(items, id).progress
    /\ items' = MapItem(items, id, [progress |-> pct])
    /\ UNCHANGED <<globalStatus, nextId, urlCount, run, task, sessVars, listVars>>

\* a handleLocalUpload that verifies whatever the session resolved with
TusResolveCoerced(id, v) ==
    /\ task[id].pc = "tus"
    /\ id \in QueueIds(items) => ItemOf(items, id).progress = progressDone
    /\ task' = [task EXCEPT ![id].pc = "verify", ![id].vid = v]
    /\ UNCHANGED <<items, globalStatus, run>>
    /\ UNCHANGED <<nextId, urlCount, sessVars, listVars>>

\* tus onSuccess: setTimeout(() => { options.onSuccess?.(upload); resolve(videoId) }, 1000)
\* onSuccess itself changes nothing the component sees, so the step modelled is
\* the timer callback: resolve(videoId), after which handleLocalUpload continues
\* with  if (videoId) await verifyUploadCompletion(...) else throw new Error(...).
\* v is the identifier captured from the responses, NoVideoId when none was;
\* the transport reports the last chunk's progress before it reports success
TusResolve(id, v) ==
    /\ task[id].pc = "tus"
    /\ id \in QueueIds(items) => ItemOf(items, id).progress = progressDone
    /\ IF v # NoVideoId
       THEN /\ task' = [task EXCEPT ![id].pc = "verify", ![id].vid = v]
            /\ UNCHANGED <<items, globalStatus, run>>
       ELSE Failed(id, ErrNoVideoId)
    /\ UNCHANGED <<nextId, urlCount, sessVars, listVars>>

\* tus onError (retries exhausted or request rejected): the promise is rejected
\* only if the caller's onError returns; otherwise it never settles
TusError(id) ==
    /\ task[id].pc = "tus"
    /\ IF PromiseAfterOnError(BulkOnErrorThrows) = "rejected"
       THEN Failed(id, ErrTus)
       ELSE /\ task' = [task EXCEPT ![id].pc = "hung"]
            /\ UNCHANGED <<items, globalStatus, run>>
    /\ UNCHANGED <<nextId, urlCount, sessVars, listVars>>

(***************************************************************************)
(* handleRemoteUpload                                                      *)
(***************************************************************************)
\* an interval callback that adds the step without the cap
CopyTickUncapped(id) ==
    /\ task[id].timer
    /\ id \in QueueIds(items)
    /\ ItemOf(items, id).status = "uploading"
    /\ LET cur == IF ItemOf(items, id).progress = NoProgress THEN 0
                  ELSE ItemOf(items, id).progress
       IN /\ cur < progressDone
          /\ items' = MapItem(items, id, [progress |-> cur + progressStep])
    /\ UNCHANGED <<globalStatus, nextId, urlCount, run, task, sessVars, listVars>>

\* the setInterval callback (500 ms), live until clearInterval
CopyTick(id) ==
    /\ task[id].timer
    /\ id \in QueueIds(items)
    /\ ItemOf(items, id).status = "uploading"
    /\ LET cur == IF ItemOf(items, id).progress = NoProgress THEN 0
                  ELSE ItemOf(items, id).progress
           new == IF cur + progressStep < progressCap THEN cur + progressStep
                  ELSE progressCap
       IN /\ cur < progressCap
          /\ items' = MapItem(items, id, [progress |-> new])
    /\ UNCHANGED <<globalStatus, nextId, urlCount, run, task, sessVars, listVars>>

\* uploadVideoFromUrl returned response.data.result:
\*   "ok"       a video with a uid
\*   "nouid"    a video object without uid
\*   "noresult" undefined: reading video.uid throws a TypeError inside the try
\*   "fail"     the request failed and the error is rethrown
CopyOutcomes == {"ok", "nouid", "noresult", "fail"}

\* an interval that nothing stops
KeepInterval(tsk, id) == tsk

\* clearInterval(progressInterval), after the await and in the catch
ClearInterval(tsk, id) == [tsk EXCEPT ![id].timer = FALSE]

CopyResponse(id, outcome) ==
    /\ task[id].pc = "copy"
    /\ outcome \in CopyOutcomes
    /\ IF outcome \in {"ok", "nouid"}
       THEN /\ items' = MapItem(items, id, [progress |-> progressDone])
            /\ task' = [ClearInterval(task, id) EXCEPT
                            ![id].pc = "verify",
                            ![id].vid = IF outcome = "ok" THEN RemoteIdOf(id)
                                        ELSE NoVideoId]
            /\ UNCHANGED <<globalStatus, run>>
       ELSE Settle(id,
                   MapItem(items, id, [status |-> "error", error |-> ErrCopy]),
                   [ClearInterval(task, id) EXCEPT ![id].pc = "done"])
    /\ UNCHANGED <<nextId, urlCount, sessVars, listVars>>

(***************************************************************************)
(* verifyUploadCompletion                                                  *)
(***************************************************************************)
\* a verifyUploadCompletion whose catch branch rethrows
VerifyResponseStrict(id, ok) ==
    /\ task[id].pc = "verify"
    /\ ok \in BOOLEAN
    /\ IF ok
       THEN Settle(id,
                   MapItem(items, id, [status |-> "success", videoId |-> task[id].vid]),
                   [task EXCEPT ![id].pc = "done"])
       ELSE Failed(id, "verification failed")
    /\ UNCHANGED <<nextId, urlCount, sessVars, listVars>>

\* verifyUploadCompletion waits 2000 ms and calls getVideoDetails: pc "verify"
\* stands for both suspensions, neither of which changes the component's state.
\* getVideoDetails answered (ok) or threw (~ok): both branches set
\* status 'success' and videoId, then call onUploadComplete, the parent's
\* callback, which is taken to return normally and to leave the component mounted
VerifyResponse(id, ok) ==
    /\ task[id].pc = "verify"
    /\ ok \in BOOLEAN
    /\ Settle(id,
              MapItem(items, id, [status |-> "success", videoId |-> task[id].vid]),
              [task EXCEPT ![id].pc = "done", ![id].verr = ~ok])
    /\ UNCHANGED <<nextId, urlCount, sessVars, listVars>>

(***************************************************************************)
(* The bulk upload component                                               *)
(***************************************************************************)
Ids == 1..MaxItems

OrchNext ==
    \/ \E n \in 1..MaxItems : HandleFileSelect(n)
    \/ \E urls \in UrlLists : AddUrlsToQueue(urls)
    \/ \E id \in Ids : RemoveItem(id)
    \/ ClearAll
    \/ StartBulkUpload
    \/ \E id \in Ids, pct \in FilePcts : TusProgress(id, pct)
    \/ \E id \in Ids : \E v \in {NoVideoId, RemoteIdOf(id)} : TusResolve(id, v)
    \/ \E id \in Ids : TusError(id)
    \/ \E id \in Ids : CopyTick(id)
    \/ \E id \in Ids, outcome \in CopyOutcomes : CopyResponse(id, outcome)
    \/ \E id \in Ids, ok \in BOOLEAN : VerifyResponse(id, ok)

(***************************************************************************)
(* Chunk-size normaliser (TusUploadService.uploadFile, first statements)   *)
(***************************************************************************)
Absent == -1          \* options.chunkSize undefined

\* Math.round(x / d) for integers x >= 0 and d > 0: floor(x / d + 1/2)
RoundDiv(x, d) == (2 * x + d) \div (2 * d)

\* the normaliser without  if (chunkSize < minChunkSize) chunkSize = minChunkSize
NormalizeUnclamped(requested) ==
    LET c0 == IF requested = Absent \/ requested = 0 THEN defaultChunkSize ELSE requested
    IN RoundDiv(c0, chunkDivisor) * chunkDivisor

\* the normaliser rounding down to a multiple of chunkDivisor
NormalizeTruncating(requested) ==
    LET c0 == IF requested = Absent \/ requested = 0 THEN defaultChunkSize ELSE requested
        c1 == IF c0 < minChunkSize THEN minChunkSize ELSE c0
    IN (c1 \div chunkDivisor) * chunkDivisor

\* let chunkSize = options.chunkSize || 52428800;
\* if (chunkSize < minChunkSize) chunkSize = minChunkSize;
\* chunkSize = Math.round(chunkSize / chunkDivisor) * chunkDivisor;
NormalizeChunkSize(requested) ==
    LET c0 == IF requested = Absent \/ requested = 0 THEN defaultChunkSize ELSE requested
        c1 == IF c0 < minChunkSize THEN minChunkSize ELSE c0
    IN RoundDiv(c1, chunkDivisor) * chunkDivisor

\* requested sizes tried by the model
RequestedSizes ==
    {Absent, 1000, defaultChunkSize - 1, defaultChunkSize, defaultChunkSize + 1}
    \cup {r \in {k * (chunkDivisor \div 2) + d : k \in 0..MaxHalfSteps, d \in {-1, 0, 1}} :
            r >= 0}

(***************************************************************************)
(* One upload session: new tus.Upload(file, {...}) and upload.start()      *)
(*                                                                         *)
(* The transport is tus-js-client, driven by the options uploadFile gives  *)
(* it: one creation request (POST), then the file in chunks of chunkSize   *)
(* (PATCH), each sent when the previous one is acknowledged; after a       *)
(* failure that is not a rejection, a retry per entry of retryDelays,      *)
(* which resumes with an offset query (HEAD); the attempt counter restarts *)
(* when the offset has advanced since the previous retry.                  *)
(***************************************************************************)
Req(method, off) == [method |-> method, offset |-> off]

\* A Location header is a URL whose text after the last '/' is `tail`, a
\* sequence of runs of characters of one class: "hex" is [a-f0-9], "upper"
\* is [A-F], "other" is any other character except '/'. `word` is the video
\* whose identifier the characters of the tail spell.
Run(class, n) == [class |-> class, n |-> n]

NoLocation == [present |-> FALSE, tail |-> <<>>, word |-> NoVideoId]

\* Location headers: a tail of hexLength lowercase hex digits, one digit
\* fewer, one more, one digit in upper case, a query string after the
\* digits, and no tail at all
Tails ==
    {<<Run("hex", hexLength)>>,
     <<Run("hex", hexLength - 1)>>,
     <<Run("hex", hexLength + 1)>>,
     <<Run("hex", hexLength \div 2), Run("upper", 1),
       Run("hex", hexLength - 1 - hexLength \div 2)>>,
     <<Run("hex", hexLength), Run("other", 12)>>,
     <<>>}

Locations == {[present |-> TRUE, tail |-> t, word |-> 1] : t \in Tails}

\* the number of characters of a tail
RECURSIVE TailLength(_)
TailLength(tail) ==
    IF tail = <<>> THEN 0 ELSE Head(tail).n + TailLength(Tail(tail))

\* a pattern without the leading '/': the last hexLength characters are
\* lowercase hex digits, whatever precedes them
ExtractIdUnanchored(location) ==
    IF /\ location.tail # <<>>
       /\ location.tail[Len(location.tail)].class = "hex"
       /\ location.tail[Len(location.tail)].n >= hexLength
    THEN location.word ELSE NoVideoId

\* location.match(/\/([a-f0-9]{32})$/): the characters between the last '/'
\* and the end are hexLength lowercase hex digits; match[1] is that text
ExtractId(location) ==
    IF /\ TailLength(location.tail) = hexLength
       /\ \A n \in DOMAIN location.tail : location.tail[n].class = "hex"
    THEN location.word ELSE NoVideoId

\* stream-media-id header: absent, or naming video 1 or video 2
MediaIds == {NoVideoId, 1, 2}

\* strings a caller may pass: '' (falsy), a watermark uid, the credential
Token == "Bearer token"

Strings == {"", "wm1", Token}

MetadataKeys == {"name", "authorization", "watermark", "note"}

\* options.metadata?: Record<string, string>; an absent map reads like {}
CallerMaps == UNION {[keys -> Strings] : keys \in SUBSET MetadataKeys}

\* options.file: its name and its type
Files == {[name |-> "clip.mp4", type |-> t] : t \in {"video/mp4", "video/webm"}}

\* what handleLocalUpload passes: name, filename, filetype and authorization
CallerMetadata ==
    [k \in {"name", "filename", "filetype", "authorization"} |->
        IF k = "authorization" THEN Token
        ELSE IF k = "filetype" THEN "video/mp4" ELSE "clip.mp4"]

\* options.metadata?.key is a non-empty string
Truthy(m, key) == key \in DOMAIN m /\ m[key] # ""

\* metadata that forwards the caller's map and adds name and filetype to it
ProtocolMetadataSpread(file, m) ==
    [k \in DOMAIN m \cup {"name", "filetype"} |->
        IF k = "name" THEN file.name
        ELSE IF k = "filetype" THEN file.type ELSE m[k]]

\* const metadata = {name: options.file.name, filetype: options.file.type},
\* and metadata.watermark when options.metadata?.watermark is set
ProtocolMetadata(file, m) ==
    [k \in {"name", "filetype"} \cup
            (IF Truthy(m, "watermark") THEN {"watermark"} ELSE {}) |->
        IF k = "name" THEN file.name
        ELSE IF k = "filetype" THEN file.type ELSE m["watermark"]]

\* const headers = {}, and headers.Authorization when
\* options.metadata?.authorization is set
TransportHeaders(m) ==
    [k \in (IF Truthy(m, "authorization") THEN {"Authorization"} ELSE {}) |->
        m["authorization"]]

\* no response has been given to onAfterResponse yet
NoHeaders ==
    [seen |-> FALSE, mediaId |-> NoVideoId, location |-> NoLocation,
     before |-> NoVideoId]

NewSession(requested, size, throws) ==
    [phase |-> "init",
     requested |-> requested,       \* options.chunkSize
     size |-> size,                 \* options.file.size
     onErrorThrows |-> throws,      \* whether options.onError throws
     file |-> [name |-> "clip.mp4", type |-> "video/mp4"],  \* options.file
     callerMetadata |-> CallerMetadata,                      \* options.metadata
     metadata |-> <<>>,             \* the metadata option given to tus.Upload
     headers |-> <<>>,              \* the headers option given to tus.Upload
     response |-> NoHeaders,        \* the last response given to onAfterResponse
     chunkSize |-> 0,
     url |-> FALSE,                 \* whether the upload has been created
     offset |-> 0,                  \* bytes acknowledged
     server |-> 0,                  \* bytes the remote has stored
     retryAttempt |-> 0,
     offsetBeforeRetry |-> 0,
     videoId |-> NoVideoId,         \* let videoId: string | null = null
     promise |-> "pending",         \* the promise uploadFile returned
     value |-> NoVideoId,           \* what it resolved with
     pct |-> NoProgress,            \* last percentage given to options.onProgress
     rejected |-> FALSE,            \* whether the remote rejected a request (4xx)
     fails |-> 0,                   \* transient failures so far
     consec |-> 0,                  \* transient failures since the last good response
     maxConsec |-> 0]               \* the longest such run of failures so far

\* no session: the state of these variables in the bulk component's specification
NoSession == NewSession(Absent, 0, FALSE)

ChunkLen(s, off) == IF s.size - off < s.chunkSize THEN s.size - off ELSE s.chunkSize

\* the requests the transport issues to continue the upload at offset off,
\* if it sent a second chunk without waiting for the first
ChunkRequestsParallel(s, off) ==
    {Req("PATCH", off)}
    \cup (IF off + s.chunkSize < s.size THEN {Req("PATCH", off + s.chunkSize)} ELSE {})

\* the requests the transport issues to continue the upload at offset off:
\* the options set chunkSize and no parallelUploads, so one chunk at a time
ChunkRequests(s, off) == {Req("PATCH", off)}

\* onAfterResponse: if (mediaId) videoId = mediaId;
\* if (location) { uploadUrl = location; if (!videoId) { match /\/([a-f0-9]{32})$/ ... } }
AfterResponse(vid, mediaId, location) ==
    LET v1 == IF mediaId # NoVideoId THEN mediaId ELSE vid
    IN IF location.present /\ v1 = NoVideoId /\ ExtractId(location) # NoVideoId
       THEN ExtractId(location) ELSE v1

\* onProgress: percentage = Math.round((bytesUploaded / bytesTotal) * 100)
Percentage(bytesUploaded, bytesTotal) == RoundDiv(100 * bytesUploaded, bytesTotal)

\* the onError option: console.error(...); options.onError?.(error); reject(error)
OnError(s) ==
    [s EXCEPT !.phase = "failed", !.promise = PromiseAfterOnError(s.onErrorThrows)]

\* the transport's error path: retry while retryDelays has an entry left for a
\* failure that may be retried, else the onError option
EmitError(s, transient) ==
    LET attempt == IF s.offset > s.offsetBeforeRetry THEN 0 ELSE s.retryAttempt
    IN IF transient /\ attempt < Len(retryDelays)
       THEN [s EXCEPT !.phase = "backoff", !.retryAttempt = attempt + 1,
                      !.offsetBeforeRetry = s.offset]
       ELSE OnError([s EXCEPT !.retryAttempt = attempt, !.rejected = ~transient])

Failure(s) ==
    [s EXCEPT !.fails = s.fails + 1, !.consec = s.consec + 1,
              !.maxConsec = IF s.consec + 1 > s.maxConsec THEN s.consec + 1 ELSE @]

\* the upload continues at offset off: success when off is the file size
\* (onSuccess starts the 1000 ms timer), else the next chunk
Proceed(s, off, rest) ==
    IF off = s.size
    THEN /\ sess' = [s EXCEPT !.phase = "successWait"]
         /\ inflight' = rest
    ELSE /\ sess' = s
         /\ inflight' = rest \cup ChunkRequests(s, off)

\* uploadFile: normalise the chunk size, build the options, upload.start()
StartUpload ==
    /\ sess.phase = "init"
    /\ sess' = [sess EXCEPT !.phase = "running",
                            !.chunkSize = NormalizeChunkSize(sess.requested),
                            !.metadata = ProtocolMetadata(sess.file, sess.callerMetadata),
                            !.headers = TransportHeaders(sess.callerMetadata)]
    /\ inflight' = {Req("POST", 0)}
    /\ UNCHANGED <<orchVars, listVars>>

Outcomes == {"ok", "transient", "rejected"}

\* the response to the creation request
CreateResponse(outcome, mediaId, location) ==
    /\ sess.phase = "running"
    /\ Req("POST", 0) \in inflight
    /\ LET rest == inflight \ {Req("POST", 0)} IN
       CASE outcome = "ok" ->
              Proceed([sess EXCEPT !.url = TRUE, !.offset = 0, !.server = 0, !.consec = 0,
                                   !.videoId = AfterResponse(sess.videoId, mediaId, location)],
                      0, rest)
         [] outcome = "transient" ->
              /\ sess.fails < MaxFails
              /\ sess' = EmitError(Failure(sess), TRUE)
              /\ inflight' = rest
         [] outcome = "rejected" ->
              /\ sess' = EmitError(sess, FALSE)
              /\ inflight' = rest
    /\ UNCHANGED <<orchVars, listVars>>

\* the response to a chunk: the acknowledgment carries the new offset, which
\* is reported to onProgress; landed tells whether a chunk whose response
\* was lost had been stored by the remote
PatchResponse(r, outcome, mediaId, landed) ==
    /\ sess.phase = "running"
    /\ r \in inflight
    /\ r.method = "PATCH"
    /\ LET rest == inflight \ {r}
           off == r.offset + ChunkLen(sess, r.offset)
       IN
       CASE outcome = "ok" ->
              Proceed([sess EXCEPT !.offset = off, !.server = off, !.consec = 0,
                                   !.pct = Percentage(off, sess.size),
                                   !.videoId = AfterResponse(sess.videoId, mediaId, NoLocation)],
                      off, rest)
         [] outcome = "transient" ->
              /\ sess.fails < MaxFails
              /\ sess' = EmitError(Failure([sess EXCEPT !.server = IF landed THEN off ELSE @]),
                                   TRUE)
              /\ inflight' = rest
         [] outcome = "rejected" ->
              /\ sess' = EmitError(sess, FALSE)
              /\ inflight' = rest
    /\ UNCHANGED <<orchVars, listVars>>

\* the retry timer: start() again, which creates the upload if it has no url
\* and asks the remote for its offset otherwise
RetryTimer ==
    /\ sess.phase = "backoff"
    /\ sess' = [sess EXCEPT !.phase = "running"]
    /\ inflight' = IF sess.url THEN {Req("HEAD", 0)} ELSE {Req("POST", 0)}
    /\ UNCHANGED <<orchVars, listVars>>

\* the response to the offset query; "rejected" is the remote no longer knowing
\* the upload, on which the transport creates a new one
ResumeResponse(outcome, mediaId) ==
    /\ sess.phase = "running"
    /\ Req("HEAD", 0) \in inflight
    /\ LET rest == inflight \ {Req("HEAD", 0)} IN
       CASE outcome = "ok" ->
              Proceed([sess EXCEPT !.offset = sess.server, !.consec = 0,
                                   !.pct = IF sess.server = sess.size
                                           THEN Percentage(sess.size, sess.size) ELSE @,
                                   !.videoId = AfterResponse(sess.videoId, mediaId, NoLocation)],
                      sess.server, rest)
         [] outcome = "transient" ->
              /\ sess.fails < MaxFails
              /\ sess' = EmitError(Failure(sess), TRUE)
              /\ inflight' = rest
         [] outcome = "rejected" ->
              /\ sess' = [sess EXCEPT !.url = FALSE]
              /\ inflight' = rest \cup {Req("POST", 0)}
    /\ UNCHANGED <<orchVars, listVars>>

\* the 1000 ms timer of onSuccess: options.onSuccess?.(upload); resolve(videoId)
SuccessTimer ==
    /\ sess.phase = "successWait"
    /\ sess' = [sess EXCEPT !.phase = "completed", !.promise = "resolved",
                            !.value = sess.videoId]
    /\ UNCHANGED <<inflight, orchVars, listVars>>

\* the onAfterResponse option alone, on a response with any headers
OnAfterResponse(mediaId, location) ==
    /\ sess.phase = "running"
    /\ sess' = [sess EXCEPT
                    !.videoId = AfterResponse(sess.videoId, mediaId, location),
                    !.response = [seen |-> TRUE, mediaId |-> mediaId,
                                  location |-> location, before |-> sess.videoId]]
    /\ UNCHANGED <<inflight, orchVars, listVars>>

SessNext ==
    \/ StartUpload
    \/ \E outcome \in Outcomes, mediaId \in MediaIds, location \in Locations :
            CreateResponse(outcome, mediaId, location)
    \/ \E r \in inflight, outcome \in Outcomes, mediaId \in MediaIds, landed \in BOOLEAN :
            PatchResponse(r, outcome, mediaId, landed)
    \/ RetryTimer
    \/ \E outcome \in Outcomes, mediaId \in MediaIds : ResumeResponse(outcome, mediaId)
    \/ SuccessTimer

(***************************************************************************)
(* The video list component (VideoList.tsx)                                *)
(***************************************************************************)
Vids == 1..MaxVideos

Absentee == "absent"

\* the elements of a sequence
Elems(seq) == {seq[n] : n \in DOMAIN seq}

\* const [bulkDeleteActive, ...] = useState(false); bulkDeleteProgress = {}
NoBulkDelete ==
    [active   |-> FALSE,
     progress |-> [v \in Vids |-> Absentee],
     order    |-> <<>>,         \* Array.from(selectedVideos) of the activation
     k        |-> 0,            \* the position of its loop
     pc       |-> "none",       \* "call": awaiting deleteVideo; "delay": the 300 ms
     calls    |-> [v \in Vids |-> 0]]   \* deleteVideo calls of the activation

\* a modal overlay (fixed inset-0 z-50) covers the list and its buttons
NoModal ==
    /\ ~bulkDelete.active
    /\ ~bulkDownload.active
    /\ download.video = NoVideoId

\* fetchVideos: setVideos(fetchedVideos); the selection is left as it is
FetchVideos(fetched) ==
    /\ videos' = fetched
    /\ UNCHANGED <<selectedVideos, bulkDelete, bulkDownload, download, orchVars, sessVars>>

\* handleSelectVideo: toggle the uid in a copy of the Set
HandleSelectVideo(videoId) ==
    /\ NoModal
    /\ videoId \in videos
    /\ selectedVideos' =
            IF videoId \in Elems(selectedVideos)
            THEN SelectSeq(selectedVideos, LAMBDA v : v # videoId)
            ELSE Append(selectedVideos, videoId)
    /\ UNCHANGED <<videos, bulkDelete, bulkDownload, download, orchVars, sessVars>>

\* setBulkDeleteProgress(prev => ({...prev, [videoId]: {...prev[videoId], status}}))
SetDeleteStatus(bd, videoId, status) ==
    [bd EXCEPT !.progress[videoId] = status]

\* the loop body up to its await: status 'deleting', then deleteVideo(videoId)
DeleteStep(bd, k) ==
    LET videoId == bd.order[k] IN
    [SetDeleteStatus(bd, videoId, "deleting") EXCEPT
        !.k = k, !.pc = "call", !.calls[videoId] = @ + 1]

\* handleBulkDeleteConfirm, from the confirmation dialog of the Delete button,
\* up to the first await of its loop
HandleBulkDeleteConfirm ==
    /\ NoModal
    /\ videos # {}
    /\ Len(selectedVideos) # 0
    /\ bulkDelete' =
            DeleteStep([active   |-> TRUE,
                        progress |-> [v \in Vids |->
                                        IF v \in Elems(selectedVideos)
                                        THEN "pending" ELSE Absentee],
                        order    |-> selectedVideos,
                        k        |-> 0,
                        pc       |-> "none",
                        calls    |-> [v \in Vids |-> 0]], 1)
    /\ UNCHANGED <<videos, selectedVideos, bulkDownload, download, orchVars, sessVars>>

\* a loop that gives up at the first failed deletion
DeleteVideoResponseAbort(ok) ==
    /\ bulkDelete.pc = "call"
    /\ LET videoId == bulkDelete.order[bulkDelete.k] IN
       IF ok
       THEN /\ bulkDelete' = [SetDeleteStatus(bulkDelete, videoId, "deleted")
                                EXCEPT !.pc = "delay"]
            /\ videos' = videos \ {videoId}
       ELSE /\ bulkDelete' = [SetDeleteStatus(bulkDelete, videoId, "error")
                                EXCEPT !.pc = "none"]
            /\ UNCHANGED videos
    /\ UNCHANGED <<selectedVideos, bulkDownload, download, orchVars, sessVars>>

\* await deleteVideo(videoId) settles: 'deleted' and the video leaves the list,
\* or the catch sets 'error'; then the 300 ms delay starts
DeleteVideoResponse(ok) ==
    /\ bulkDelete.pc = "call"
    /\ LET videoId == bulkDelete.order[bulkDelete.k] IN
       IF ok
       THEN /\ bulkDelete' = [SetDeleteStatus(bulkDelete, videoId, "deleted")
                                EXCEPT !.pc = "delay"]
            /\ videos' = videos \ {videoId}
       ELSE /\ bulkDelete' = [SetDeleteStatus(bulkDelete, videoId, "error")
                                EXCEPT !.pc = "delay"]
            /\ UNCHANGED videos
    /\ UNCHANGED <<selectedVideos, bulkDownload, download, orchVars, sessVars>>

\* the 300 ms delay elapses: the next iteration, or the end of the loop
DeleteDelay ==
    /\ bulkDelete.pc = "delay"
    /\ bulkDelete' =
            IF bulkDelete.k < Len(bulkDelete.order)
            THEN DeleteStep(bulkDelete, bulkDelete.k + 1)
            ELSE [bulkDelete EXCEPT !.pc = "none"]
    /\ UNCHANGED <<videos, selectedVideos, bulkDownload, download, orchVars, sessVars>>

\* closeBulkDelete; its button is rendered once every entry is deleted or error
CloseBulkDelete ==
    /\ bulkDelete.active
    /\ \A v \in Vids : bulkDelete.progress[v] \in {Absentee, "deleted", "error"}
    /\ bulkDelete' = [bulkDelete EXCEPT !.active = FALSE,
                                        !.progress = [v \in Vids |-> Absentee]]
    /\ selectedVideos' = <<>>
    /\ UNCHANGED <<videos, bulkDownload, download, orchVars, sessVars>>

\* the answers of the remote to a call on /{videoId}/downloads: an HTTP
\* status (0: no response at all) and, on 200, result.default if there is one
Percents == {10, 55}

Tickets ==
    {[status |-> "inprogress", percentComplete |-> p] : p \in Percents}
    \cup {[status |-> "ready", percentComplete |-> progressDone],
          [status |-> "error", percentComplete |-> 0]}

NoTicket == [status |-> "none", percentComplete |-> 0]

HttpFailures == {404, 500, 0}

StatusResponses ==
    {[http |-> 200, default |-> t] : t \in Tickets \cup {NoTicket}}
    \cup {[http |-> h, default |-> NoTicket] : h \in HttpFailures}

\* the POST answers with a ticket whenever it succeeds
EnableResponses ==
    {[http |-> 200, default |-> t] : t \in Tickets}
    \cup {[http |-> h, default |-> NoTicket] : h \in HttpFailures}

Null == [status |-> "null", percentComplete |-> 0]

Throw == [status |-> "throw", percentComplete |-> 0]

\* a status query that rethrows the 404 like any other failure
GetVideoDownloadStatusStrict(response) ==
    IF response.http = 200
    THEN IF response.default # NoTicket THEN response.default ELSE Null
    ELSE Throw

\* getVideoDownloadStatus: result.default, null without one or on a 404,
\* and any other failure rethrown
GetVideoDownloadStatus(response) ==
    IF response.http = 200
    THEN IF response.default # NoTicket THEN response.default ELSE Null
    ELSE IF response.http = 404 THEN Null ELSE Throw

\* enableVideoDownload: result.default, every failure rethrown
EnableVideoDownload(response) ==
    IF response.http = 200 THEN response.default ELSE Throw

\* const [bulkDownloadActive, ...] = useState(false); bulkDownloadProgress = {}
NoBulkDownload ==
    [active   |-> FALSE,
     progress |-> [v \in Vids |-> Absentee],
     order    |-> <<>>,         \* Array.from(selectedVideos) of the activation
     listed   |-> {},           \* the videos its closure sees
     k        |-> 0,            \* the position of its loop
     pc       |-> "none",       \* "status" | "enable": the awaited call; "delay"
     poll     |-> [v \in Vids |-> "none"]]  \* pollForProgress of v: "timer"
                                            \* scheduled, "query" awaiting

\* setBulkDownloadProgress(prev => ({...prev, [videoId]: {...prev[videoId], status}}))
SetDownloadStatus(bd, videoId, status) ==
    [bd EXCEPT !.progress[videoId] = status]

\* the loop from position k up to its next await: ids that videos.find does
\* not find are passed over by `continue`; the others get 'enabling' and the
\* status query
RECURSIVE DownloadStep(_, _)
DownloadStep(bd, k) ==
    IF k > Len(bd.order) THEN [bd EXCEPT !.k = Len(bd.order), !.pc = "none"]
    ELSE IF bd.order[k] \notin bd.listed THEN DownloadStep(bd, k + 1)
    ELSE [SetDownloadStatus(bd, bd.order[k], "enabling") EXCEPT
            !.k = k, !.pc = "status"]

\* no activation of handleBulkDownload has a call or a timer outstanding
BulkDownloadQuiet ==
    /\ bulkDownload.pc = "none"
    /\ \A v \in Vids : bulkDownload.poll[v] = "none"

\* handleBulkDownload up to the first await of its loop; one activation at a
\* time is followed
HandleBulkDownload ==
    /\ NoModal
    /\ videos # {}
    /\ Len(selectedVideos) # 0
    /\ BulkDownloadQuiet
    /\ bulkDownload' =
            DownloadStep([active   |-> TRUE,
                          progress |-> [v \in Vids |->
                                          IF v \in Elems(selectedVideos)
                                          THEN "pending" ELSE Absentee],
                          order    |-> selectedVideos,
                          listed   |-> videos,
                          k        |-> 0,
                          pc       |-> "none",
                          poll     |-> [v \in Vids |-> "none"]], 1)
    /\ UNCHANGED <<videos, selectedVideos, bulkDelete, download, orchVars, sessVars>>

\* the branches on downloadInfo.status, then the 500 ms delay: 'inprogress'
\* schedules pollForProgress and goes on without waiting for it
AfterDownloadInfo(bd, videoId, info) ==
    IF info.status = "throw"
    THEN [SetDownloadStatus(bd, videoId, "error") EXCEPT !.pc = "delay"]
    ELSE IF info.status = "inprogress"
    THEN [SetDownloadStatus(bd, videoId, "inprogress") EXCEPT
            !.pc = "delay", !.poll[videoId] = "timer"]
    ELSE [SetDownloadStatus(bd, videoId, info.status) EXCEPT !.pc = "delay"]

\* await getVideoDownloadStatus(videoId) settles in the loop
BulkStatusResponse(response) ==
    /\ bulkDownload.pc = "status"
    /\ LET videoId == bulkDownload.order[bulkDownload.k]
           info    == GetVideoDownloadStatus(response)
       IN  bulkDownload' =
             IF info = Null
             THEN [bulkDownload EXCEPT !.pc = "enable"]
             ELSE AfterDownloadInfo(bulkDownload, videoId, info)
    /\ UNCHANGED <<videos, selectedVideos, bulkDelete, download, orchVars, sessVars>>

\* await enableVideoDownload(videoId) settles in the loop
BulkEnableResponse(response) ==
    /\ bulkDownload.pc = "enable"
    /\ bulkDownload' =
            AfterDownloadInfo(bulkDownload, bulkDownload.order[bulkDownload.k],
                              EnableVideoDownload(response))
    /\ UNCHANGED <<videos, selectedVideos, bulkDelete, download, orchVars, sessVars>>

\* the 500 ms delay elapses: the next iteration, or the end of the loop
BulkDelay ==
    /\ bulkDownload.pc = "delay"
    /\ bulkDownload' = DownloadStep(bulkDownload, bulkDownload.k + 1)
    /\ UNCHANGED <<videos, selectedVideos, bulkDelete, download, orchVars, sessVars>>

\* setTimeout(pollForProgress, 2000) fires: the status query is sent
PollTimer(videoId) ==
    /\ bulkDownload.poll[videoId] = "timer"
    /\ bulkDownload' = [bulkDownload EXCEPT !.poll[videoId] = "query"]
    /\ UNCHANGED <<videos, selectedVideos, bulkDelete, download, orchVars, sessVars>>

\* pollForProgress after its await: null changes nothing and schedules
\* nothing; 'ready' and 'error' end the polling; 'inprogress' schedules the
\* next poll; a failed query sets 'error'
PollResponse(videoId, response) ==
    /\ bulkDownload.poll[videoId] = "query"
    /\ LET updatedInfo == GetVideoDownloadStatus(response) IN
       bulkDownload' =
         IF updatedInfo = Null
         THEN [bulkDownload EXCEPT !.poll[videoId] = "none"]
         ELSE IF updatedInfo = Throw
         THEN [SetDownloadStatus(bulkDownload, videoId, "error") EXCEPT
                    !.poll[videoId] = "none"]
         ELSE IF updatedInfo.status = "inprogress"
         THEN [SetDownloadStatus(bulkDownload, videoId, "inprogress") EXCEPT
                    !.poll[videoId] = "timer"]
         ELSE [SetDownloadStatus(bulkDownload, videoId, updatedInfo.status) EXCEPT
                    !.poll[videoId] = "none"]
    /\ UNCHANGED <<videos, selectedVideos, bulkDelete, download, orchVars, sessVars>>

\* handleDownloadAll: every 'ready' entry is opened and marked 'downloaded'
HandleDownloadAll ==
    /\ bulkDownload.active
    /\ \E v \in Vids : bulkDownload.progress[v] = "ready"
    /\ bulkDownload' =
            [bulkDownload EXCEPT !.progress =
                [v \in Vids |-> IF @[v] = "ready" THEN "downloaded" ELSE @[v]]]
    /\ UNCHANGED <<videos, selectedVideos, bulkDelete, download, orchVars, sessVars>>

\* closeBulkDownload: the view, the progress map and the selection are reset;
\* the loop and its timers are not
CloseBulkDownload ==
    /\ bulkDownload.active
    /\ bulkDownload' = [bulkDownload EXCEPT !.active = FALSE,
                                            !.progress = [v \in Vids |-> Absentee]]
    /\ selectedVideos' = <<>>
    /\ UNCHANGED <<videos, bulkDelete, download, orchVars, sessVars>>

NoResponse == [http |-> -1, default |-> NoTicket]

\* downloadVideo = null, downloadProgress = {status: 'enabling', percentComplete: 0}
NoDownload ==
    [video           |-> NoVideoId,
     status          |-> "enabling",
     percentComplete |-> 0,
     pc       |-> "none",       \* "status" | "enable": the call handleDownloadVideo awaits
     interval |-> FALSE,        \* pollInterval is set and not cleared
     queries  |-> 0,            \* status queries of interval callbacks awaiting
     polls    |-> 0,            \* interval callbacks run by the activation
     overlap  |-> FALSE,        \* a callback ran while a query was still awaiting
     first    |-> NoResponse,   \* the answer to the activation's first status query
     enables  |-> 0,            \* enableVideoDownload calls of the activation
     updates  |-> <<>>]         \* setDownloadProgress calls made on a remote answer

\* setDownloadProgress({status, percentComplete, ...}) on an answer of the remote
SetProgress(d, status, percentComplete) ==
    [d EXCEPT !.status = status,
              !.percentComplete = percentComplete,
              !.updates = Append(@, [status |-> status,
                                     percentComplete |-> percentComplete])]

\* no activation of handleDownloadVideo has a call or an interval outstanding
DownloadQuiet ==
    /\ download.pc = "none"
    /\ ~download.interval
    /\ download.queries = 0

\* handleDownloadVideo up to its first await, from the Download button of a
\* row or from Try Again in the view at 'error'; one activation at a time is
\* followed
HandleDownloadVideo(videoId) ==
    /\ \/ NoModal /\ videoId \in videos
       \/ download.video = videoId /\ download.status = "error"
    /\ DownloadQuiet
    /\ download' = [NoDownload EXCEPT !.video = videoId, !.pc = "status"]
    /\ UNCHANGED <<videos, selectedVideos, bulkDelete, bulkDownload, orchVars, sessVars>>

\* the branches on downloadInfo.status and the outer catch: 'inprogress'
\* starts the 2000 ms interval
AfterSingleInfo(d, info) ==
    IF info = Throw
    THEN [d EXCEPT !.status = "error", !.percentComplete = 0, !.pc = "none"]
    ELSE IF info.status = "inprogress"
    THEN [SetProgress(d, "inprogress", info.percentComplete) EXCEPT
            !.pc = "none", !.interval = TRUE]
    ELSE IF info.status = "ready"
    THEN [SetProgress(d, "ready", progressDone) EXCEPT !.pc = "none"]
    ELSE [SetProgress(d, "error", 0) EXCEPT !.pc = "none"]

\* await getVideoDownloadStatus(video.uid) settles in handleDownloadVideo:
\* without a ticket 'enabling' is set again and enablement is requested
DownloadStatusResponse(response) ==
    /\ download.pc = "status"
    /\ LET info == GetVideoDownloadStatus(response)
           d    == [download EXCEPT !.first = response]
       IN  download' =
             IF info = Null
             THEN [d EXCEPT !.status = "enabling", !.percentComplete = 0,
                            !.pc = "enable", !.enables = @ + 1]
             ELSE AfterSingleInfo(d, info)
    /\ UNCHANGED <<videos, selectedVideos, bulkDelete, bulkDownload, orchVars, sessVars>>

\* await enableVideoDownload(video.uid) settles in handleDownloadVideo
DownloadEnableResponse(response) ==
    /\ download.pc = "enable"
    /\ download' = AfterSingleInfo(download, EnableVideoDownload(response))
    /\ UNCHANGED <<videos, selectedVideos, bulkDelete, bulkDownload, orchVars, sessVars>>

\* the interval fires: its callback sends a status query, whether or not an
\* earlier one is still awaiting its answer
IntervalTick ==
    /\ download.interval
    /\ download.polls < MaxPolls
    /\ download' = [download EXCEPT !.queries = @ + 1, !.polls = @ + 1,
                                    !.overlap = @ \/ download.queries > 0]
    /\ UNCHANGED <<videos, selectedVideos, bulkDelete, bulkDownload, orchVars, sessVars>>

\* an interval callback after its await: 'ready', 'error' and a failed query
\* clear the interval; 'inprogress' only sets the progress; null does nothing
IntervalResponse(response) ==
    /\ download.queries > 0
    /\ LET updatedInfo == GetVideoDownloadStatus(response)
           d           == [download EXCEPT !.queries = @ - 1]
       IN  download' =
             IF updatedInfo = Null THEN d
             ELSE IF updatedInfo = Throw
             THEN [d EXCEPT !.status = "error", !.percentComplete = 0,
                            !.interval = FALSE]
             ELSE IF updatedInfo.status = "ready"
             THEN [SetProgress(d, "ready", progressDone) EXCEPT !.interval = FALSE]
             ELSE IF updatedInfo.status = "error"
             THEN [SetProgress(d, "error", 0) EXCEPT !.interval = FALSE]
             ELSE SetProgress(d, "inprogress", updatedInfo.percentComplete)
    /\ UNCHANGED <<videos, selectedVideos, bulkDelete, bulkDownload, orchVars, sessVars>>

\* setDownloadVideo(null): the X, Cancel and Close buttons, rendered at
\* 'error' and 'ready' only
DismissDownload ==
    /\ download.video # NoVideoId
    /\ download.status \in {"error", "ready"}
    /\ download' = [download EXCEPT !.video = NoVideoId]
    /\ UNCHANGED <<videos, selectedVideos, bulkDelete, bulkDownload, orchVars, sessVars>>

ListInit ==
    /\ videos = {}
    /\ selectedVideos = <<>>
    /\ bulkDelete = NoBulkDelete
    /\ bulkDownload = NoBulkDownload
    /\ download = NoDownload

(***************************************************************************)
(* Specifications                                                          *)
(***************************************************************************)
vars == <<items, globalStatus, nextId, urlCount, run, task, sess, inflight,
          videos, selectedVideos, bulkDelete, bulkDownload, download>>

\* the bulk upload component; its sessions are seen through their callbacks
Init == OrchInit /\ sess = NoSession /\ inflight = {} /\ ListInit

Next == OrchNext

Spec == Init /\ [][Next]_vars

\* one upload session, for each file size, requested chunk size and onError
FileSizes == {1000, 2 * minChunkSize, 2 * minChunkSize + 1}

SessionRequests == {Absent, minChunkSize}

SessionInit ==
    /\ OrchInit
    /\ \E requested \in SessionRequests, size \in FileSizes, throws \in BOOLEAN :
            sess = NewSession(requested, size, throws)
    /\ inflight = {}
    /\ ListInit

SessionSpec == SessionInit /\ [][SessNext]_vars

\* the chunk-size normaliser alone, on every requested size
ChunkInit ==
    /\ OrchInit
    /\ \E requested \in RequestedSizes : sess = NewSession(requested, 1000, FALSE)
    /\ inflight = {}
    /\ ListInit

ChunkSpec == ChunkInit /\ [][StartUpload]_vars

\* the start of an upload alone, on every caller metadata map and file
MetadataInit ==
    /\ OrchInit
    /\ \E m \in CallerMaps, f \in Files :
            sess = [NewSession(Absent, 1000, FALSE) EXCEPT
                        !.callerMetadata = m, !.file = f]
    /\ inflight = {}
    /\ ListInit

MetadataSpec == MetadataInit /\ [][StartUpload]_vars

\* the capture of the video id alone: responses with any headers, in any order
CaptureNext ==
    \/ StartUpload
    \/ \E mediaId \in MediaIds, location \in Locations \cup {NoLocation} :
            OnAfterResponse(mediaId, location)

CaptureSpec == SessionInit /\ [][CaptureNext]_vars

\* selection and bulk deletion
DeleteNext ==
    \/ \E fetched \in SUBSET Vids : FetchVideos(fetched)
    \/ \E videoId \in Vids : HandleSelectVideo(videoId)
    \/ HandleBulkDeleteConfirm
    \/ \E ok \in BOOLEAN : DeleteVideoResponse(ok)
    \/ DeleteDelay
    \/ CloseBulkDelete

DeleteSpec == Init /\ [][DeleteNext]_vars

\* selection and bulk download preparation
BulkDownloadNext ==
    \/ \E fetched \in SUBSET Vids : FetchVideos(fetched)
    \/ \E videoId \in Vids : HandleSelectVideo(videoId)
    \/ HandleBulkDownload
    \/ \E response \in StatusResponses : BulkStatusResponse(response)
    \/ \E response \in EnableResponses : BulkEnableResponse(response)
    \/ BulkDelay
    \/ \E videoId \in Vids : PollTimer(videoId)
    \/ \E videoId \in Vids, response \in StatusResponses : PollResponse(videoId, response)
    \/ HandleDownloadAll
    \/ CloseBulkDownload

BulkDownloadSpec == Init /\ [][BulkDownloadNext]_vars

\* the download view of one video
DownloadNext ==
    \/ \E fetched \in SUBSET Vids : FetchVideos(fetched)
    \/ \E videoId \in Vids : HandleDownloadVideo(videoId)
    \/ \E response \in StatusResponses : DownloadStatusResponse(response)
    \/ \E response \in EnableResponses : DownloadEnableResponse(response)
    \/ IntervalTick
    \/ \E response \in StatusResponses : IntervalResponse(response)
    \/ DismissDownload

DownloadSpec == Init /\ [][DownloadNext]_vars

(***************************************************************************)
(* Properties of the bulk upload component (specification Spec)            *)
(***************************************************************************)
RECURSIVE Flatten(_)
Flatten(seqs) == IF Len(seqs) = 0 THEN <<>> ELSE Head(seqs) \o Flatten(Tail(seqs))

\* the snapshot items of the latest run, in the order they were batched
RunItems == Flatten(run.batches)

RunIds == BatchIds(RunItems)

\* an uploadSingleItem activation with a timer or a response still to come
Pending(id) == task[id].pc \in {"tus", "copy", "verify"}

\* an uploadSingleItem activation that has not settled
InFlight(id) == Pending(id) \/ task[id].pc = "hung"

StatusOf(id) == ItemOf(items, id).status

\* C1: every run reaches globalStatus 'completed' when each network call
\* returns: as long as the run is 'uploading', some activation still has a
\* timer or a response to come that will carry the run forward
C1_RunNeverStuck ==
    globalStatus = "uploading" => \E id \in Ids : Pending(id)

\* the items of the latest run that failed: in status 'error', or their
\* session reported a terminal error
FailedIds ==
    {id \in RunIds : task[id].pc = "hung"
                        \/ (id \in QueueIds(items) /\ StatusOf(id) = "error")}

\* C2: once nothing of a run is left to happen and exactly one of its items
\* failed, that item is in status 'error' with a message and every other item
\* of the run is in status 'success'
C2_OneFailureIsolated ==
    (/\ Len(run.batches) > 0
     /\ \A id \in Ids : ~Pending(id)
     /\ Cardinality(FailedIds) = 1)
    => \A id \in RunIds \cap QueueIds(items) :
          IF id \in FailedIds
          THEN StatusOf(id) = "error" /\ ItemOf(items, id).error # NoError
          ELSE StatusOf(id) = "success"

\* an item uploadSingleItem has been called for
Dispatched(id) ==
    task[id].pc # "none" \/ (id \in QueueIds(items) /\ StatusOf(id) # "idle")

\* an item whose uploadSingleItem has settled: 'success' or 'error'
Terminal(id) ==
    /\ ~InFlight(id)
    /\ id \in QueueIds(items) => StatusOf(id) \in {"success", "error"}

\* C4: no item of batch K+1 is dispatched until every item of batch K is
\* terminal
C4_BatchBarrier ==
    \A k \in 1..(Len(run.batches) - 1) :
        (\E id \in BatchIds(run.batches[k + 1]) : Dispatched(id))
        => \A j \in BatchIds(run.batches[k]) : Terminal(j)

\* a second batch is being uploaded, the items of the first still in the queue
C4_Witness ==
    /\ run.active
    /\ run.k = 2
    /\ \E id \in BatchIds(run.batches[2]) :
            Pending(id) /\ id \in QueueIds(items) /\ StatusOf(id) = "uploading"
    /\ BatchIds(run.batches[1]) \subseteq QueueIds(items)

\* the sizes of the batches seven idle items are split into
SevenItems == [n \in 1..7 |-> [id |-> n, kind |-> "file"]]

BatchSizes(batches) == [k \in DOMAIN batches |-> Len(batches[k])]

\* C5: the idle items are split in queue order into batches of 3, only the
\* last one possibly shorter (7 items: 3, 3, 1), and at most 3 items are in
\* flight at any time
C5_BatchesOfThree ==
    /\ \A k \in DOMAIN run.batches :
          IF k < Len(run.batches) THEN Len(run.batches[k]) = 3
          ELSE Len(run.batches[k]) \in 1..3
    /\ \A m, n \in DOMAIN RunItems : m < n => RunItems[m].id < RunItems[n].id
    /\ BatchSizes(Batches(SevenItems)) = <<3, 3, 1>>
    /\ Flatten(Batches(SevenItems)) = SevenItems
    /\ Cardinality({id \in Ids : InFlight(id)}) <= 3
    /\ Cardinality({n \in DOMAIN items : items[n].status = "uploading"}) <= 3

\* four idle items were split into 3 and 1, and the first three are in flight
C5_Witness ==
    /\ run.active
    /\ BatchSizes(run.batches) = <<3, 1>>
    /\ Cardinality({id \in Ids : InFlight(id)}) = 3

\* the source of a snapshot item of the latest run
KindOf(id) == SnapshotKind(RunItems, id)

\* C6: a file upload whose session completes without an identifier ends in
\* status 'error' with the message 'Upload completed but no video ID was
\* returned'; it is never 'success' and verification is not run for it
C6_NoIdIsError ==
    /\ [](\A id \in RunIds :
            (task[id].pc \in {"verify", "done"} /\ KindOf(id) = "file"
                /\ task[id].vid = NoVideoId)
            => /\ task[id].pc = "done"
               /\ id \in QueueIds(items) =>
                    /\ StatusOf(id) = "error"
                    /\ ItemOf(items, id).error = ErrNoVideoId)
    /\ [](\A n \in DOMAIN items :
            (items[n].kind = "file" /\ items[n].status = "success")
            => items[n].videoId # NoVideoId)
    /\ [][\A id \in Ids :
            (task[id].pc = "tus" /\ task'[id].pc \in {"done", "none"}
                /\ id \in QueueIds(items'))
            => /\ ItemOf(items', id).status = "error"
               /\ ItemOf(items', id).error = ErrNoVideoId
               /\ ItemOf(items', id).videoId = NoVideoId]_vars

\* a file item failed with that message while a sibling is still uploading
C6_Witness ==
    \E id \in RunIds \cap QueueIds(items) :
        /\ KindOf(id) = "file"
        /\ task[id].pc = "done"
        /\ task[id].vid = NoVideoId
        /\ StatusOf(id) = "error"
        /\ ItemOf(items, id).error = ErrNoVideoId

\* C7: an upload that succeeded with identifier v and whose verification
\* call failed still ends in status 'success' with videoId v
C7_SoftVerification ==
    /\ [](\A id \in Ids \cap QueueIds(items) :
            (task[id].pc = "done" /\ task[id].verr)
            => StatusOf(id) = "success" /\ ItemOf(items, id).videoId = task[id].vid)
    /\ [][\A id \in Ids :
            (task[id].pc = "verify" /\ task'[id].pc # "verify"
                /\ id \in QueueIds(items'))
            => /\ ItemOf(items', id).status = "success"
               /\ ItemOf(items', id).videoId = task[id].vid
               /\ ItemOf(items', id).error = NoError]_vars

\* the verification call of an upload with identifier v failed, and the item
\* is 'success' with videoId v
C7_Witness ==
    \E id \in Ids \cap QueueIds(items) :
        /\ task[id].pc = "done"
        /\ task[id].verr
        /\ task[id].vid # NoVideoId
        /\ StatusOf(id) = "success"
        /\ ItemOf(items, id).videoId = task[id].vid

\* the ids of the queue, in order
IdsOf(its) == [n \in DOMAIN its |-> its[n].id]

\* C12: while a run is in progress (globalStatus 'uploading') the queue is
\* not mutated: no item is added, none is removed, the queue is not cleared
C12_QueueFrozenWhileRunning ==
    [][globalStatus = "uploading" => IdsOf(items') = IdsOf(items)]_vars

(***************************************************************************)
(* Properties of one upload session (specifications SessionSpec, ChunkSpec)*)
(***************************************************************************)
\* C3: when a session ends in a terminal failure, the promise uploadFile
\* returned is rejected, whatever the caller's onError callback does
C3_FailureRejectsPromise ==
    sess.phase = "failed" => sess.promise = "rejected"

PatchesInFlight == {r \in inflight : r.method = "PATCH"}

C10_ChunkSizeBounds ==
    sess.phase # "init" =>
        /\ sess.chunkSize >= 5242880
        /\ sess.chunkSize % 262144 = 0

\* a request below the minimum that is not a multiple of the divisor
C10_Witness ==
    /\ sess.phase = "running"
    /\ sess.requested = 1000
    /\ sess.chunkSize = 5242880

\* C11: the chunk size is the multiple of 262144 nearest to
\* max(requested or 52428800, 5242880); 1000 gives 5242880, 52428800 gives
\* 52428800 and 5242881 gives 5242880
C11_NearestMultiple ==
    sess.phase # "init" =>
        LET wanted == IF sess.requested = Absent \/ sess.requested = 0 THEN 52428800
                      ELSE sess.requested
            target == IF wanted < 5242880 THEN 5242880 ELSE wanted
            dist == IF sess.chunkSize >= target THEN sess.chunkSize - target
                    ELSE target - sess.chunkSize
        IN /\ sess.chunkSize % 262144 = 0
           /\ 2 * dist <= 262144
           /\ sess.requested = 1000 => sess.chunkSize = 5242880
           /\ sess.requested = 52428800 => sess.chunkSize = 52428800
           /\ sess.requested = 5242881 => sess.chunkSize = 5242880

\* the request 5242881, one byte above the minimum, was normalised
C11_Witness ==
    /\ sess.phase = "running"
    /\ sess.requested = 5242881
    /\ sess.chunkSize = 5242880

(***************************************************************************)
(* Properties of the video list component                                  *)
(***************************************************************************)
DeleteTerminal == {"deleted", "error"}

DownloadTerminal == {"ready", "error", "downloaded"}

\* in the open bulk delete view, an id has left 'pending' only if the id
\* selected before it is deleted or error
DeleteSerial ==
    bulkDelete.active =>
        \A n \in 1..(Len(bulkDelete.order) - 1) :
            bulkDelete.progress[bulkDelete.order[n + 1]] # "pending"
                => bulkDelete.progress[bulkDelete.order[n]] \in DeleteTerminal

\* in the open bulk download view, an id has left 'pending' only if the id
\* selected before it is ready (or downloaded) or error
DownloadSerial ==
    bulkDownload.active =>
        \A n \in 1..(Len(bulkDownload.order) - 1) :
            bulkDownload.progress[bulkDownload.order[n + 1]] # "pending"
                => bulkDownload.progress[bulkDownload.order[n]] \in DownloadTerminal

\* a loop moves on from an item only when its delay elapses
DelayElapsed ==
    /\ (bulkDelete.k >= 1 /\ bulkDelete'.k > bulkDelete.k) => bulkDelete.pc = "delay"
    /\ (bulkDownload.k >= 1 /\ bulkDownload'.k > bulkDownload.k)
            => bulkDownload.pc = "delay"

\* C13: bulk delete and bulk download preparation strictly serialize: for
\* consecutive selected ids K and K+1, K+1 leaves 'pending' and has its first
\* network call only after K is terminal (deleted or error; ready or error)
\* and the inter-item delay has elapsed.
C13_StrictlySerial ==
    /\ []DeleteSerial
    /\ []DownloadSerial
    /\ [][DelayElapsed]_vars

\* the ids of the latest bulk delete run whose entry has one of the statuses
DeleteCount(statuses) ==
    Cardinality({v \in Elems(bulkDelete.order) : bulkDelete.progress[v] \in statuses})

\* the loop of the open bulk delete view has nothing more to do: it has
\* ended, or it is in the delay that follows the last id
DeleteLoopAtRest ==
    /\ bulkDelete.active
    /\ \/ bulkDelete.pc = "none"
       \/ bulkDelete.pc = "delay" /\ bulkDelete.k = Len(bulkDelete.order)

\* C14: bulk delete continues past failures: whichever deletions fail, no id
\* is attempted twice, and once the loop has nothing more to do every
\* selected id has been attempted exactly once, deleted + error = n and no id
\* is pending or deleting.
C14_ContinuesPastFailures ==
    /\ \A v \in Vids : bulkDelete.calls[v] <= 1
    /\ DeleteLoopAtRest =>
        /\ \A v \in Elems(bulkDelete.order) : bulkDelete.calls[v] = 1
        /\ DeleteCount({"deleted"}) + DeleteCount({"error"}) = Len(bulkDelete.order)
        /\ DeleteCount({"pending", "deleting"}) = 0

\* three ids of which the second failed: 2 deleted, 1 error, the third attempted
C14_Witness ==
    /\ DeleteLoopAtRest
    /\ Len(bulkDelete.order) = 3
    /\ bulkDelete.progress[bulkDelete.order[1]] = "deleted"
    /\ bulkDelete.progress[bulkDelete.order[2]] = "error"
    /\ bulkDelete.progress[bulkDelete.order[3]] = "deleted"
    /\ bulkDelete.calls[bulkDelete.order[3]] = 1
    /\ DeleteCount({"deleted"}) = 2
    /\ DeleteCount({"error"}) = 1

\* something is still to come for the n-th id of the open bulk download
\* view: the loop has not passed it, or is awaiting its call, or its
\* pollForProgress has a timer or a query outstanding
DownloadToCome(n) ==
    \/ bulkDownload.pc # "none" /\ bulkDownload.k < n
    \/ bulkDownload.pc \in {"status", "enable"} /\ bulkDownload.k = n
    \/ bulkDownload.poll[bulkDownload.order[n]] # "none"

\* C15: in bulk download preparation every selected id eventually reaches
\* ready or error when every remote call returns; as a property of finite
\* runs: an id of the open view that is pending, enabling or inprogress
\* still has a call, a timer or its turn in the loop to come.
C15_NoIdStuck ==
    bulkDownload.active =>
        \A n \in DOMAIN bulkDownload.order :
            bulkDownload.progress[bulkDownload.order[n]]
                    \in {"pending", "enabling", "inprogress"}
                => DownloadToCome(n)

\* the answers inprogress(10%), inprogress(55%), ready as progress updates
PollerSequence ==
    <<[status |-> "inprogress", percentComplete |-> 10],
      [status |-> "inprogress", percentComplete |-> 55],
      [status |-> "ready", percentComplete |-> progressDone]>>

\* C16: when the remote answers inprogress(10%), inprogress(55%), ready for
\* one asset, the download poller makes exactly these three status updates,
\* in that order, and after the ready update makes no update and sends no
\* further poll.
\* (An answer that comes after the ready one finds the remote still ready.)
C16_PollerEmission ==
    (/\ Len(download.updates) >= 3
     /\ SubSeq(download.updates, 1, 3) = PollerSequence
     /\ \A n \in 4..Len(download.updates) : download.updates[n].status = "ready")
        => /\ download.updates = PollerSequence
           /\ ~download.interval

\* closing stops the updates: while the bulk download view stays closed its
\* progress map does not change, and while no download view is open the
\* download progress does not change
NoUpdateWhenClosed ==
    /\ (~bulkDownload.active /\ ~bulkDownload'.active)
            => bulkDownload'.progress = bulkDownload.progress
    /\ (download.video = NoVideoId /\ download'.video = NoVideoId)
            => /\ download'.status = download.status
               /\ download'.percentComplete = download.percentComplete

\* C17: polling is cancellable: once the bulk download view is closed by
\* closeBulkDownload, or the download view of a video is dismissed, the
\* poller makes no further state update for the asset.
C17_PollingCancellable == [][NoUpdateWhenClosed]_vars

\* the order of the statuses of one polling sequence
Rank(status) ==
    CASE status \in {Absentee, "pending"} -> 0
      [] status = "enabling" -> 1
      [] status = "inprogress" -> 2
      [] OTHER -> 3

\* a step that is not the start of a new polling sequence does not take a
\* status back: not from ready or error to inprogress or enabling, and not
\* from inprogress to enabling
NoRegress ==
    /\ Rank(download'.status) >= Rank(download.status)
    /\ \A v \in Vids :
        bulkDownload'.progress[v] # Absentee
            => Rank(bulkDownload'.progress[v]) >= Rank(bulkDownload.progress[v])

\* C18: the download status tracked for an asset never regresses within one
\* polling sequence, under every interleaving of poll requests and their
\* responses: once ready or error it never goes back to inprogress or
\* enabling, and once inprogress never back to enabling.
C18_StatusNeverRegresses ==
    [][\/ \E v \in Vids : HandleDownloadVideo(v)
       \/ HandleBulkDownload
       \/ NoRegress]_vars

\* the remote said 'not found', or answered 200 without a default ticket
NoTicketAnswer(response) ==
    \/ response.http = 404
    \/ response.http = 200 /\ response.default = NoTicket

\* C19: a 404 answer, or an answer without default ticket, to the status
\* query is taken as 'no ticket' and not as an error, and the readiness flow
\* then requests enablement exactly once; a ticket needs no enablement; any
\* other failure of the status query ends the flow with status error.
C19_NoTicketIsNotAnError ==
    download.first # NoResponse =>
        IF NoTicketAnswer(download.first)
        THEN /\ download.enables = 1
             /\ download.pc = "enable" => download.status = "enabling"
        ELSE /\ download.enables = 0
             /\ download.first.http # 200 =>
                    /\ download.status = "error"
                    /\ DownloadQuiet

\* a 404 was answered, enablement was requested once and answered 'ready'
C19_Witness ==
    /\ download.first.http = 404
    /\ download.enables = 1
    /\ download.pc = "none"
    /\ download.status = "ready"

(***************************************************************************)
(* Properties of the start of an upload (specification MetadataSpec)       *)
(***************************************************************************)
\* the credential the caller supplied, '' when there is none
Credential ==
    IF "authorization" \in DOMAIN sess.callerMetadata
    THEN sess.callerMetadata["authorization"] ELSE ""

\* the credential is the Authorization header and is neither a key nor a
\* value of the protocol metadata
Segregated ==
    /\ sess.headers = [k \in {"Authorization"} |-> Credential]
    /\ \A k \in DOMAIN sess.metadata :
            /\ k \notin {"authorization", "Authorization", Credential}
            /\ sess.metadata[k] # Credential

\* the caller's map holds the credential's string as watermark too
CredentialAsWatermark ==
    /\ "watermark" \in DOMAIN sess.callerMetadata
    /\ sess.callerMetadata["watermark"] = Credential

ExactHexTail(location) ==
    location.present /\ location.tail = <<Run("hex", hexLength)>>

\* C21: a response that carries stream-media-id makes its value the captured
\* identifier; otherwise, nothing being captured yet, the identifier is the
\* trailing path segment of the Location header if that segment is exactly
\* 32 lowercase hexadecimal characters, and a Location with any other
\* trailing segment yields no identifier.
C21_IdentifierCapture ==
    sess.response.seen =>
        IF sess.response.mediaId # NoVideoId
        THEN sess.videoId = sess.response.mediaId
        ELSE IF sess.response.before # NoVideoId
        THEN sess.videoId = sess.response.before
        ELSE IF ExactHexTail(sess.response.location)
        THEN sess.videoId = sess.response.location.word
        ELSE sess.videoId = NoVideoId

\* without stream-media-id the identifier came from a Location of 32 hex digits
C21_Witness ==
    /\ sess.response.seen
    /\ sess.response.mediaId = NoVideoId
    /\ sess.response.before = NoVideoId
    /\ ExactHexTail(sess.response.location)
    /\ sess.videoId = 1

\* a step leaves a captured identifier as it is
IdKept == sess.videoId # NoVideoId => sess'.videoId = sess.videoId

\* C22: within one upload session the captured identifier, once set from any
\* response, never changes, whatever headers later responses carry, and the
\* value uploadFile resolves with is that first identifier.
C22_IdentifierSetOnce ==
    /\ [][IdKept]_vars
    /\ [](sess.promise = "resolved" => sess.value = sess.videoId)

\* The last segment of the URL's path: what follows the last '/' of the path,
\* the query string left out
TrailingPathSegment(url) == IF url.slash THEN "" ELSE url.path[Len(url.path)]

\* From one state to the next, an item still in the queue has the name and
\* the source it had
NameAndSourceKept ==
    \A m \in DOMAIN items : \A n \in DOMAIN items' :
        items'[n].id = items[m].id =>
            /\ items'[n].name = items[m].name
            /\ items'[n].url = items[m].url
            /\ items'[n].kind = items[m].kind

\* C23: an item created from a URL is named by the trailing path segment of
\* the URL, and no later operation changes an item's name or its source.
C23_DisplayName ==
    /\ [](\A m \in DOMAIN items :
            items[m].kind = "url" => items[m].name = TrailingPathSegment(items[m].url))
    /\ [][NameAndSourceKept]_vars

\* C23 as the code has it: an item created from a URL is named by the text
\* after the last '/' of the URL, query string included, or 'Remote Video'
\* when that text is empty; a file item is named by its file; and no later
\* operation changes an item's name or its source.
C23_DisplayNameIsTextAfterLastSlash ==
    /\ [](\A m \in DOMAIN items :
            LET it == items[m]
                last == it.url.path[Len(it.url.path)]
            IN  IF it.kind = "url"
                THEN /\ it.url \in Urls
                     /\ it.name = IF it.url.slash THEN "Remote Video"
                                  ELSE IF it.url.query = "" THEN last
                                  ELSE last \o "?" \o it.url.query
                ELSE it.url = NoUrl /\ it.name = FileName)
    /\ [][NameAndSourceKept]_vars

\* the item of "https://x.test/dir/video.mp4" has come through a run with the
\* name "video.mp4", after another item was removed from the queue
C23_Witness ==
    \E m \in DOMAIN items :
        /\ items[m].kind = "url"
        /\ items[m].url = [path |-> <<"dir", "video.mp4">>, slash |-> FALSE, query |-> ""]
        /\ items[m].name = "video.mp4"
        /\ items[m].status \in {"success", "error"}
        /\ Len(items) < nextId

\* the ids whose uploadSingleItem is called in a step: the first batch of a
\* run that starts, or the next batch of the run in progress
DispatchedIds ==
    IF run'.active /\ (~run.active \/ run'.k # run.k \/ run'.batches # run.batches)
    THEN BatchIds(run'.batches[run'.k])
    ELSE {}

\* a run starts in this step
RunStarts == run'.active /\ run'.k = 1 /\ (~run.active \/ run.k # 1 \/ run'.batches # run.batches)

\* the number of places an id has in the batches of the run
PlacesInRun(id) ==
    Cardinality({<<b, n>> \in (DOMAIN run.batches) \X (1..concurrentLimit) :
                    n \in DOMAIN run.batches[b] /\ run.batches[b][n].id = id})

\* C24: each item id has at most one upload task driving it, also when the
\* start command is issued more than once: an activation of uploadSingleItem
\* is started for an id only when no earlier activation for that id is
\* outstanding, a run starts only when no activation of an earlier run is
\* outstanding and its loop has ended, and a run holds each id at most once.
C24_OneDriverPerItem ==
    /\ [][\A id \in DispatchedIds : ~InFlight(id)]_vars
    /\ [][RunStarts => ~run.active /\ \A id \in Ids : ~InFlight(id)]_vars
    /\ [](\A id \in Ids : PlacesInRun(id) <= 1)

\* a second run is in progress: one item is being uploaded while another has
\* the success of an earlier run
C24_Witness ==
    /\ run.active
    /\ \E id \in RunIds : InFlight(id)
    /\ \E id \in QueueIds(items) \ RunIds : StatusOf(id) = "success"

\* a queue that holds nothing of an earlier run: every item in it is idle
FreshQueue == \A m \in DOMAIN items : items[m].status = "idle"

\* C25: globalStatus 'completed' is terminal for a run: from 'completed',
\* globalStatus becomes 'uploading' again only over a fresh queue (after clear
\* all, globalStatus is 'idle' and the queue is empty).
C25_CompletedIsTerminal ==
    [][globalStatus = "completed" /\ globalStatus' = "uploading" => FreshQueue]_vars

\* the moves of an item's status: idle -> uploading -> success | error
StatusMoves ==
    {<<"idle", "uploading">>, <<"uploading", "success">>, <<"uploading", "error">>}

\* from one state to the next, an item still in the queue keeps its status
\* or makes one of the moves
StatusMonotonic ==
    \A m \in DOMAIN items : \A n \in DOMAIN items' :
        items'[n].id = items[m].id =>
            \/ items'[n].status = items[m].status
            \/ <<items[m].status, items'[n].status>> \in StatusMoves

\* C26: an item's status only moves idle -> uploading -> success or
\* idle -> uploading -> error: an item in success never later becomes error
\* or uploading, and an item in error never later becomes success or uploading.
C26_StatusMonotonic == [][StatusMonotonic]_vars

\* one item has ended in success and another in error while a further run is
\* in progress over the same queue
C26_Witness ==
    /\ \E id \in QueueIds(items) : StatusOf(id) = "success"
    /\ \E id \in QueueIds(items) : StatusOf(id) = "error"
    /\ \E id \in QueueIds(items) : StatusOf(id) = "uploading"
    /\ \E id \in QueueIds(items) \ RunIds : StatusOf(id) \in {"success", "error"}

\* the URL items of the queue
UrlIds == {id \in QueueIds(items) : ItemOf(items, id).kind = "url"}

\* the copy-from-url call of item id is outstanding
CopyOutstanding(id) == task[id].pc = "copy"

\* C27: while the copy-from-url call of a URL item is outstanding its
\* percentage is at most 90 and never decreases; the percentage is 100 only
\* after the call has returned successfully; an item whose call failed never
\* shows 100.
C27_SyntheticProgressCapped ==
    /\ [](\A id \in UrlIds :
            /\ CopyOutstanding(id) => ItemOf(items, id).progress <= progressCap
            /\ ItemOf(items, id).progress = progressDone =>
                   \/ task[id].pc = "verify"
                   \/ StatusOf(id) = "success"
            /\ StatusOf(id) = "error" => ItemOf(items, id).progress <= progressCap
            /\ ItemOf(items, id).progress \in
                   {NoProgress, progressDone} \cup {progressStep * n : n \in 1..9})
    /\ [][\A id \in UrlIds :
            CopyOutstanding(id) /\ id \in QueueIds(items') =>
                ItemOf(items', id).progress >= ItemOf(items, id).progress]_vars

\* the timer of a URL item has taken its percentage to 90 and the call is
\* still outstanding
C27_Witness ==
    \E id \in UrlIds :
        CopyOutstanding(id) /\ ItemOf(items, id).progress = progressCap

\* an item carries an error message only in status 'error'
ErrorOnlyInError ==
    \A n \in DOMAIN items : items[n].error # NoError => items[n].status = "error"

\* C28: in every reachable state of the queue an item has an error message
\* only if its status is 'error', and every item in status 'success' has a
\* videoId.
C28_ErrorAndSuccessFields ==
    /\ ErrorOnlyInError
    /\ \A n \in DOMAIN items : items[n].status = "success" => items[n].videoId # NoVideoId

\* the ids of the items in status 'idle', in queue order
IdleIdsInOrder ==
    LET Idle(it) == it.status = "idle" IN IdsOf(SelectSeq(items, Idle))

\* the batch of the run that holds id
BatchOf(id) == CHOOSE b \in DOMAIN run.batches : id \in BatchIds(run.batches[b])

\* an activation of uploadSingleItem begins for id in this step
ActivationBegins(id) ==
    task'[id].pc \in {"tus", "copy"} /\ task[id].pc \notin {"tus", "copy"}

\* C29: a run dispatches exactly the items that were idle when it started,
\* each at most once and in queue order; items already in success or error
\* are not dispatched again, and items added after the start are not
\* dispatched by that run and keep status idle.
C29_RunDispatchesIdleSnapshot ==
    /\ [][RunStarts => IdsOf(RunItems)' = IdleIdsInOrder]_vars
    /\ [][DispatchedIds # {} =>
            /\ DispatchedIds \subseteq RunIds'
            /\ run'.k = 1 \/ (run'.batches = run.batches /\ run'.k = run.k + 1)
            /\ \A id \in DispatchedIds : task'[id].pc \in {"tus", "copy"}]_vars
    /\ [][\A id \in Ids : ActivationBegins(id) => id \in DispatchedIds]_vars
    /\ [](run.active =>
            \A id \in RunIds :
                IF BatchOf(id) > run.k
                THEN /\ task[id].pc = "none"
                     /\ (id \in QueueIds(items) => StatusOf(id) = "idle")
                ELSE id \in QueueIds(items) => StatusOf(id) # "idle")
    /\ [](\A id \in Ids : PlacesInRun(id) <= 1 /\ (id \notin RunIds => task[id].pc = "none"))
    /\ [][run.active =>
            \A id \in (QueueIds(items) \cap QueueIds(items')) \ RunIds :
                ItemOf(items', id).status = ItemOf(items, id).status]_vars

\* a run is in progress over a queue that holds an item finished by an
\* earlier run and an idle item added after the start
C29_Witness ==
    /\ run.active
    /\ \E id \in RunIds : InFlight(id)
    /\ \E id \in QueueIds(items) \ RunIds : StatusOf(id) \in {"success", "error"}
    /\ \E id \in QueueIds(items) \ RunIds : StatusOf(id) = "idle"

\* a step made by the interval callback of item id: nothing but the item's
\* progress changes
TimerTick(id) ==
    /\ id \in QueueIds(items) /\ id \in QueueIds(items')
    /\ ItemOf(items', id).progress # ItemOf(items, id).progress
    /\ task' = task

\* C30: the progress timer of a URL item is stopped on both outcomes of the
\* copy-from-url call: the timer is set only while the call is outstanding,
\* and once the call has returned or failed no tick changes the item's
\* progress again.
C30_TimerStopped ==
    /\ [](\A id \in Ids : task[id].timer => CopyOutstanding(id))
    /\ [][\A id \in Ids :
            TimerTick(id) /\ ItemOf(items, id).kind = "url" => CopyOutstanding(id)]_vars

\* the call of a URL item has failed after its timer had ticked, and the
\* timer is no longer set
C30_Witness ==
    \E id \in UrlIds :
        /\ task[id].pc = "done"
        /\ ~task[id].timer
        /\ StatusOf(id) = "error"
        /\ ItemOf(items, id).progress >= progressStep

====
